---- MODULE Spec2Model ----
(***************************************************************************)
(* Meraki Client VPN provisioning utility (cli.py and                      *)
(* meraki_client_vpn_provisioning.py) as a state machine.                   *)
(*                                                                         *)
(* Modelled: network selection (promptSelectNetworks), the creation batch  *)
(* (createUsers / MerakiVPN.createNewVPNUser), the deactivation batch      *)
(* (deactivateUsers / MerakiVPN.getMerakiAuthUsers / deactivateUser), the  *)
(* totals of main and the detailed log (printFinalStatus), the start of    *)
(* main (API key loop, promptSelectOrg, network and device listing), the   *)
(* CSV upload (promptUploadCSV, generatePassword) and the operator's       *)
(* interrupt (KeyboardInterrupt, caught at the bottom of cli.py).          *)
(*                                                                         *)
(* The Meraki Dashboard is outside the repository: every call to it is a   *)
(* nondeterministic choice among the responses the calling code can see    *)
(* (a result, or a raised APIError).                                       *)
(*                                                                         *)
(* Python values: a str is a sequence of one-character strings where the   *)
(* code looks inside it (the selection entry) and a sequence of words      *)
(* where it only searches it (error texts); a dict is the sequence of its  *)
(* items in insertion order, keys distinct; None is the string "None".     *)
(***************************************************************************)
EXTENDS Integers, Sequences, FiniteSets, TLC

VARIABLES
    pc,               \* where the program is
    networks,         \* promptSelectNetworks: the candidate list, sorted by name
    input,            \* promptSelectNetworks: the entry read by Prompt.ask
    notice,           \* promptSelectNetworks: the last line it printed about an entry
    target_networks,  \* dict name -> id (or NoSelection for None)
    userList,         \* list of user dicts
    finalStatus,      \* createUsers / deactivateUsers: the status list
    ni,               \* position of the network loop (1-based)
    ui,               \* position of the user loop (1-based)
    network,          \* deactivateUsers: the loop variable `network`
    user_id,          \* deactivateUsers: the id found by the lookup
    calls,            \* the gateway calls issued so far, in order
    console,          \* the per-operation status lines printed so far
    successful,       \* main: count of successes
    failed,           \* main: count of failures
    table,            \* printFinalStatus: the rows of the detailed log
    api_key,          \* MerakiVPN.MERAKI_API_KEY
    authenticated,    \* main: the flag of the API key loop
    orgs,             \* main: the organizations getOrganizations returned
    working_org,      \* MerakiVPN.workingOrgID
    operation,        \* main: "ADD" or "DEACTIVATE"
    interrupts,       \* KeyboardInterrupts delivered to the process so far
    line,             \* promptUploadCSV: the row csv_reader gave last
    lineno,           \* promptUploadCSV: rows read from the open file so far
    count,            \* promptUploadCSV: the record count it printed last
    fileStart,        \* length of userList when the open file was opened
    opened            \* promptUploadCSV: file names asked for so far

\* The state of main before the batch, and of the CSV upload.
session == << api_key, authenticated, orgs, working_org, operation, interrupts >>
upload == << line, lineno, count, fileStart, opened >>

vars == << pc, networks, input, notice, target_networks, userList, finalStatus, ni, ui,
           network, user_id, calls, console, successful, failed, table,
           api_key, authenticated, orgs, working_org, operation, interrupts,
           line, lineno, count, fileStart, opened >>

----------------------------------------------------------------------------
(* Bounds *)

MaxNets == 2       \* networks in a network list / target set
MaxUsers == 2      \* users in a user list
MaxPairs == 6      \* (network, user) pairs of one batch
MaxInputLen == 3   \* characters of a selection entry
MaxAuthUsers == 2  \* auth users a network's listing returns

----------------------------------------------------------------------------
(* Python values *)

None == "None"
Unbound == "<unbound>"

\* All sequences over S of length at most n.
SeqsUpTo(S, n) == UNION { [1..k -> S] : k \in 0..n }

\* `needle in hay` for two strs (as word sequences): a contiguous occurrence.
Contains(hay, needle) ==
    \E i \in 0..(Len(hay) - Len(needle)) :
        \A j \in 1..Len(needle) : hay[i + j] = needle[j]

\* dict operations on the item sequence.
DictKeys(d) == { d[i].name : i \in 1..Len(d) }
DictGet(d, k) == d[CHOOSE i \in 1..Len(d) : d[i].name = k].id
DictPut(d, k, v) ==
    IF k \in DictKeys(d)
    THEN [i \in 1..Len(d) |-> IF d[i].name = k THEN [name |-> k, id |-> v] ELSE d[i]]
    ELSE Append(d, [name |-> k, id |-> v])

\* The value of target_networks while it is None.
NoSelection == << [name |-> None, id |-> None] >>

----------------------------------------------------------------------------
(* The organization's networks and the users the operator may enter *)

\* The networks of the working organization, listed in name order
\* (names are unique within an organization, ids are unique).
Catalog ==
    << [name |-> "Branch", id |-> "L_30"],
       [name |-> "HQ",     id |-> "L_10"],
       [name |-> "Lab",    id |-> "L_20"] >>

NameRank(n) == CHOOSE i \in 1..Len(Catalog) : Catalog[i].name = n

\* Lists of distinct networks, in any order, at most MaxNets long.
NetworkLists ==
    { l \in SeqsUpTo({ Catalog[i] : i \in 1..Len(Catalog) }, MaxNets) :
        \A i, j \in 1..Len(l) : i # j => l[i] # l[j] }

NetworkIds == { Catalog[i].id : i \in 1..Len(Catalog) }

\* User dicts as promptManualUserInput / promptUploadCSV build them for ADD.
AddUsers ==
    { [username |-> "Alice", email |-> "alice@example.com", password |-> "Secr3t!"],
      [username |-> "Bob",   email |-> "bob@example.com",   password |-> "<generated>"] }

\* ... and for DEACTIVATE (username is None).
DeactivateUsers ==
    { [username |-> None, email |-> "alice@example.com", password |-> "<generated>"],
      [username |-> None, email |-> "bob@example.com",   password |-> "<generated>"] }

----------------------------------------------------------------------------
(* promptSelectNetworks *)

\* The characters of a selection entry.
Alphabet == { "0", "1", "2", "-", ",", " ", "a", "l", "A", "L" }
Digits == { "0", "1", "2" }

Inputs == SeqsUpTo(Alphabet, MaxInputLen)

\* str.lower()
LowerChar(c) == IF c = "A" THEN "a" ELSE IF c = "L" THEN "l" ELSE c
Lower(str) == [i \in 1..Len(str) |-> LowerChar(str[i])]

\* str.split(",")
RECURSIVE Split(_)
Split(str) ==
    IF \A i \in 1..Len(str) : str[i] # ","
    THEN << str >>
    ELSE LET c == CHOOSE i \in 1..Len(str) :
                      str[i] = "," /\ \A j \in 1..(i - 1) : str[j] # ","
         IN  << SubSeq(str, 1, c - 1) >> \o Split(SubSeq(str, c + 1, Len(str)))

\* str.strip()
RECURSIVE StripLeft(_)
StripLeft(str) ==
    IF str # << >> /\ Head(str) = " " THEN StripLeft(Tail(str)) ELSE str

RECURSIVE StripRight(_)
StripRight(str) ==
    IF str # << >> /\ str[Len(str)] = " "
    THEN StripRight(SubSeq(str, 1, Len(str) - 1))
    ELSE str

Strip(str) == StripRight(StripLeft(str))

\* int(str): an optional sign and at least one digit, else ValueError.
Unsigned(str) == IF str # << >> /\ Head(str) = "-" THEN Tail(str) ELSE str
IsInt(str) ==
    /\ Unsigned(str) # << >>
    /\ \A i \in 1..Len(Unsigned(str)) : Unsigned(str)[i] \in Digits

DigitValue(c) == IF c = "0" THEN 0 ELSE IF c = "1" THEN 1 ELSE 2

RECURSIVE Magnitude(_)
Magnitude(digits) ==
    IF digits = << >> THEN 0
    ELSE 10 * Magnitude(SubSeq(digits, 1, Len(digits) - 1)) + DigitValue(digits[Len(digits)])

int(str) ==
    IF Head(str) = "-" THEN 0 - Magnitude(Unsigned(str)) ELSE Magnitude(Unsigned(str))

\* list[i] for a Python index i (0-based; a negative i counts from the end):
\* IndexError outside -len .. len-1.
IndexInRange(list, i) == (0 - Len(list)) <= i /\ i < Len(list)
Index(list, i) == IF i >= 0 THEN list[i + 1] ELSE list[Len(list) + i + 1]

\* [each.strip() for each in input.split(",")]
InputList(str) == [i \in 1..Len(Split(str)) |-> Strip(Split(str)[i])]

\* The dict comprehension of the index branch, entry by entry: "0" is skipped,
\* int() may raise ValueError and networks[...] IndexError.
RECURSIVE SelectByIndex(_, _, _)
SelectByIndex(candidates, input_list, selected) ==
    IF input_list = << >> THEN [raised |-> FALSE, value |-> selected]
    ELSE LET num == Head(input_list)
         IN  IF num = << "0" >>
             THEN SelectByIndex(candidates, Tail(input_list), selected)
             ELSE IF ~IsInt(num) \/ ~IndexInRange(candidates, int(num) - 1)
             THEN [raised |-> TRUE, value |-> NoSelection]
             ELSE LET chosen == Index(candidates, int(num) - 1)
                  IN  SelectByIndex(candidates, Tail(input_list),
                                    DictPut(selected, chosen.name, chosen.id))

\* SelectAll with every name mapped to the id of the first candidate.
SelectAll_FirstId(candidates) ==
    [i \in 1..Len(candidates) |-> [name |-> candidates[i].name, id |-> candidates[1].id]]

\* {network["name"]: network["id"] for network in networks}
RECURSIVE SelectAll(_)
SelectAll(candidates) ==
    IF candidates = << >> THEN << >>
    ELSE LET last == candidates[Len(candidates)]
         IN  DictPut(SelectAll(SubSeq(candidates, 1, Len(candidates) - 1)),
                     last.name, last.id)

\* networks.sort(key=lambda x: x["name"])
RECURSIVE SortByName(_)
Insert(sorted, n) ==
    LET k == Cardinality({ i \in 1..Len(sorted) :
                             NameRank(sorted[i].name) <= NameRank(n.name) })
    IN  SubSeq(sorted, 1, k) \o << n >> \o SubSeq(sorted, k + 1, Len(sorted))
SortByName(list) ==
    IF list = << >> THEN << >>
    ELSE Insert(SortByName(SubSeq(list, 1, Len(list) - 1)), list[Len(list)])

\* FILTER_ONLY_MX_NETWORKS: keep the networks with an MX, then sort by name.
Candidates(networkList, mxList) ==
    SortByName(SelectSeq(networkList, LAMBDA n : n.id \in mxList))

\* Prompt.ask returns the operator's entry.
SelectAsk ==
    /\ pc = "selectPrompt"
    /\ input' \in Inputs
    /\ pc' = "selectEntered"
    /\ UNCHANGED << session, upload >>
    /\ UNCHANGED << networks, notice, target_networks, userList, finalStatus, ni, ui,
                    network, user_id, calls, console, successful, failed, table >>

\* The body of the selection loop for one entry, up to the confirmation.
SelectParse ==
    /\ pc = "selectEntered"
    /\ IF Lower(input) = << "a", "l", "l" >>
       THEN /\ target_networks' = SelectAll(networks)
            /\ pc' = "selectReturned"
            /\ UNCHANGED << input, notice >>
       ELSE LET built == SelectByIndex(networks, InputList(input), << >>)
            IN  IF built.raised
                THEN /\ notice' = "Sorry"
                     /\ target_networks' = NoSelection
                     /\ pc' = "selectPrompt"
                     /\ input' = << >>   \* read again before its next use
                ELSE /\ notice' = "Selected"
                     /\ target_networks' = built.value
                     /\ pc' = "selectConfirm"
                     /\ UNCHANGED input
    /\ UNCHANGED << session, upload >>
    /\ UNCHANGED << networks, userList, finalStatus, ni, ui, network, user_id, calls,
                    console, successful, failed, table >>

\* A declined confirmation that keeps the selection.
Declined_KeepsSelection(selected) == selected

\* target_networks = None, after a declined confirmation.
Declined(selected) == NoSelection

\* Confirm.ask: return the selection, or reset it and prompt again.
SelectConfirm ==
    /\ pc = "selectConfirm"
    /\ \E answer \in BOOLEAN :
        IF answer
        THEN /\ pc' = "selectReturned"
             /\ UNCHANGED << target_networks, input >>
        ELSE /\ target_networks' = Declined(target_networks)
             /\ pc' = "selectPrompt"
             /\ input' = << >>   \* read again before its next use
    /\ UNCHANGED << session, upload >>
    /\ UNCHANGED << networks, notice, userList, finalStatus, ni, ui, network, user_id,
                    calls, console, successful, failed, table >>

----------------------------------------------------------------------------
(* Errors and gateway responses *)

\* The str "" / a str error such as "User not found".
StrValue(words) == [type |-> "str", hasErrors |-> FALSE, text |-> words]
EmptyStr == StrValue(<< >>)

\* An APIError. hasErrors: its .message is a dict with an "errors" list, whose
\* first element is `text`; otherwise .message is None or plain text and
\* .message["errors"] raises TypeError.
APIError(hasErrors, words) == [type |-> "APIError", hasErrors |-> hasErrors, text |-> words]

AlreadyExists == << "already", "exists" >>

ErrTexts == { << "Email", "already", "exists" >>, << "Invalid", "email" >> }

APIErrors == { APIError(TRUE, t) : t \in ErrTexts } \cup { APIError(FALSE, << >>) }

\* What a dashboard call that returns no data can do: return, or raise.
Returned == [raised |-> FALSE, error |-> EmptyStr]
Raised(e) == [raised |-> TRUE, error |-> e]
Responses == { Returned } \cup { Raised(e) : e \in APIErrors }

\* deactivateUsers never looks into the error of a delete: one error stands for all.
DeleteResponses == { Returned, Raised(APIError(TRUE, << "Invalid", "user" >>)) }

----------------------------------------------------------------------------
(* createUsers *)

\* f"{network} - appliance"
Appliance(name) == << name, "-", "appliance" >>

\* createNewVPNUser reporting an account that already exists as a success.
createNewVPNUser_ExistsIsSuccess(resp, password) ==
    IF resp.raised /\ ~Contains(resp.error.text, AlreadyExists)
    THEN [success |-> FALSE, error |-> resp.error]
    ELSE [success |-> TRUE, password |-> password, error |-> resp.error]

\* MerakiVPN.createNewVPNUser: the dict it returns for the dashboard's response.
createNewVPNUser(resp, password) ==
    IF resp.raised
    THEN [success |-> FALSE, error |-> resp.error]
    ELSE [success |-> TRUE, password |-> password, error |-> EmptyStr]

\* The request createNewVPNUser sends (raised: whether the dashboard answered
\* it with an error).
CreateCall(net_id, user, appliance, resp) ==
    [op |-> "create", networkId |-> net_id, name |-> user.username,
     email |-> user.email, password |-> user.password, authorizedZone |-> appliance,
     raised |-> resp.raised]

\* CreateStatus with the user's email stored as the record's user.
CreateStatus_TagsEmail(status, user, net) ==
    [username |-> user.email, network |-> net, password |-> user.password] @@ status

\* status["username"], status["network"], status["password"] are set.
CreateStatus(status, user, net) ==
    [username |-> user.username, network |-> net, password |-> user.password] @@ status

\* The status line createUsers prints for one user.
CreateNotice(status) ==
    IF status.success THEN "Success"
    ELSE IF Contains(status.error.text, AlreadyExists) THEN "AlreadyActive"
    ELSE "Failed"

\* The loops `for network in target_networks: for user in userList` advance.
NextNi == IF ui < Len(userList) THEN ni ELSE ni + 1
NextUi == IF ui < Len(userList) THEN ui + 1 ELSE 1

\* One pass of the inner loop body of createUsers.
CreateStep ==
    /\ pc = "createLoop"
    /\ ni <= Len(target_networks)
    /\ ui <= Len(userList)
    /\ \E resp \in Responses :
        LET net == target_networks[ni].name
            user == userList[ui]
            appliance == Appliance(net)
            net_id == DictGet(target_networks, net)
            status == CreateStatus(createNewVPNUser(resp, user.password), user, net)
        IN  /\ calls' = Append(calls, CreateCall(net_id, user, appliance, resp))
            /\ finalStatus' = Append(finalStatus, status)
            /\ IF (~status.success) /\ (~status.error.hasErrors)
               THEN \* status["error"].message["errors"][0] raises: the batch is left
                    /\ pc' = "batchRaised"
                    /\ UNCHANGED << ni, ui, console >>
               ELSE /\ console' = Append(console,
                                    [who |-> status.username, status |-> CreateNotice(status)])
                    /\ ni' = NextNi
                    /\ ui' = NextUi
                    /\ pc' = "createLoop"
    /\ UNCHANGED << session, upload >>
    /\ UNCHANGED << networks, input, notice, target_networks, userList, network, user_id,
                    successful, failed, table >>

\* Both loops are over: return finalStatus.
CreateReturn ==
    /\ pc = "createLoop"
    /\ (ni > Len(target_networks) \/ Len(userList) = 0)
    /\ pc' = "returned"
    /\ UNCHANGED << session, upload >>
    /\ UNCHANGED << networks, input, notice, target_networks, userList, finalStatus, ni, ui,
                    network, user_id, calls, console, successful, failed, table >>

----------------------------------------------------------------------------
(* deactivateUsers *)

\* The Meraki auth users a network's listing may hold.
AuthUsers ==
    { [id |-> "600", email |-> "alice@example.com"],
      [id |-> "601", email |-> "bob@example.com"],
      [id |-> "602", email |-> "carol@example.com"] }

AuthUserLists == SeqsUpTo(AuthUsers, MaxAuthUsers)

\* MerakiVPN.getMerakiAuthUsers, given the list the dashboard returned: the id
\* of the first user with that email; None for an empty list or no match.
RECURSIVE FirstMatch(_, _)
FirstMatch(authUsers, email_address) ==
    IF authUsers = << >> THEN None
    ELSE IF Head(authUsers).email = email_address THEN Head(authUsers).id
    ELSE FirstMatch(Tail(authUsers), email_address)

getMerakiAuthUsers(authUsers, email_address) ==
    IF Len(authUsers) = 0 THEN None ELSE FirstMatch(authUsers, email_address)

\* A variant that reports every delete as done, whatever the dashboard answered.
deactivateUser_AlwaysSuccess(resp) == [success |-> TRUE, error |-> EmptyStr]

\* MerakiVPN.deactivateUser: the dict it returns for the dashboard's response.
deactivateUser(resp) ==
    IF resp.raised
    THEN [success |-> FALSE, error |-> resp.error]
    ELSE [success |-> TRUE, error |-> EmptyStr]

\* The requests of the deactivation batch (a listing carries no user id).
ListCall(net_id, didRaise) ==
    [op |-> "list", networkId |-> net_id, userId |-> None, raised |-> didRaise]
DeleteCall(net_id, uid, resp) ==
    [op |-> "delete", networkId |-> net_id, userId |-> uid, raised |-> resp.raised]

UserNotFound == StrValue(<< "User", "not", "found" >>)

NotFoundStatus(email) ==
    [username |-> email, network |-> "ALL", password |-> "", success |-> FALSE,
     error |-> UserNotFound]

DeactivateStatus(status, email, net) ==
    [username |-> email, password |-> "", network |-> net] @@ status

\* A variant scan that starts over after a miss, as a `while user_id == None`
\* without its closing `break` would.
NextNetwork_Rescan(i) == 1

\* `for network in target_networks`: after a miss the scan moves to the next key.
NextNetwork(i) == i + 1

\* One pass of the lookup loop `for network in target_networks` for the
\* current user; on the last miss, the "User not found" branch and `continue`.
DeactLookup ==
    /\ pc = "deactLookup"
    /\ ui <= Len(userList)
    /\ ni <= Len(target_networks)
    /\ LET net == target_networks[ni].name
           net_id == DictGet(target_networks, net)
           email == userList[ui].email
       IN  /\ network' = net
           /\ \/ \* getNetworkMerakiAuthUsers raises: nothing catches it
                 /\ calls' = Append(calls, ListCall(net_id, TRUE))
                 /\ pc' = "batchRaised"
                 /\ UNCHANGED << user_id, finalStatus, console, ni, ui >>
              \/ \E authUsers \in AuthUserLists :
                 LET found == getMerakiAuthUsers(authUsers, email)
                 IN  /\ calls' = Append(calls, ListCall(net_id, FALSE))
                     /\ user_id' = found
                     /\ IF found # None
                        THEN /\ pc' = "deactDelete"
                             /\ ni' = 1
                             /\ UNCHANGED << finalStatus, console, ui >>
                        ELSE IF ni < Len(target_networks)
                        THEN /\ ni' = NextNetwork(ni)
                             /\ UNCHANGED << pc, finalStatus, console, ui >>
                        ELSE /\ console' = Append(console, [who |-> net, status |-> "NotFound"])
                             /\ finalStatus' = Append(finalStatus, NotFoundStatus(email))
                             /\ ui' = ui + 1
                             /\ ni' = 1
                             /\ pc' = "deactLookup"
    /\ UNCHANGED << session, upload >>
    /\ UNCHANGED << networks, input, notice, target_networks, userList, successful, failed, table >>

\* The lookup loop over an empty target set runs no pass: user_id stays None
\* and the "User not found" branch prints f"{network} - ...", with `network`
\* never assigned (UnboundLocalError).
DeactNoNetworks ==
    /\ pc = "deactLookup"
    /\ ui <= Len(userList)
    /\ Len(target_networks) = 0
    /\ user_id' = None
    /\ IF network = Unbound
       THEN /\ pc' = "batchRaised"
            /\ UNCHANGED << finalStatus, console, ui >>
       ELSE /\ console' = Append(console, [who |-> network, status |-> "NotFound"])
            /\ finalStatus' = Append(finalStatus, NotFoundStatus(userList[ui].email))
            /\ ui' = ui + 1
            /\ pc' = "deactLookup"
    /\ UNCHANGED << session, upload >>
    /\ UNCHANGED << networks, input, notice, target_networks, userList, ni, network, calls,
                    successful, failed, table >>

\* One pass of the delete loop `for network in target_networks`.
DeactDelete ==
    /\ pc = "deactDelete"
    /\ ni <= Len(target_networks)
    /\ \E resp \in DeleteResponses :
        LET net == target_networks[ni].name
            net_id == DictGet(target_networks, net)
            email == userList[ui].email
            status == DeactivateStatus(deactivateUser(resp), email, net)
        IN  /\ network' = net
            /\ calls' = Append(calls, DeleteCall(net_id, user_id, resp))
            /\ finalStatus' = Append(finalStatus, status)
            /\ console' = Append(console,
                    [who |-> net, status |-> IF status.success THEN "Success" ELSE "Failed"])
            /\ IF ni < Len(target_networks)
               THEN /\ ni' = ni + 1
                    /\ UNCHANGED << pc, ui, user_id >>
               ELSE /\ ni' = 1
                    /\ ui' = ui + 1
                    /\ user_id' = None
                    /\ pc' = "deactLookup"
    /\ UNCHANGED << session, upload >>
    /\ UNCHANGED << networks, input, notice, target_networks, userList, successful, failed, table >>

\* The user loop is over: return finalStatus.
DeactReturn ==
    /\ pc = "deactLookup"
    /\ ui > Len(userList)
    /\ pc' = "returned"
    /\ UNCHANGED << session, upload >>
    /\ UNCHANGED << networks, input, notice, target_networks, userList, finalStatus, ni, ui,
                    network, user_id, calls, console, successful, failed, table >>

----------------------------------------------------------------------------
(* main: totals, and the detailed log *)

\* A variant count that takes the flag for b whatever it holds.
CountValues_AnyFlag(task, b) == Cardinality({ k \in DOMAIN task : k = "success" })

\* sum(value == b for value in task.values()): of the values of a status dict
\* only the bool under "success" can equal True or False.
CountValues(task, b) ==
    Cardinality({ k \in DOMAIN task : k = "success" /\ task[k] = b })

RECURSIVE Tally(_, _)
Tally(statuses, b) ==
    IF statuses = << >> THEN 0
    ELSE CountValues(Head(statuses), b) + Tally(Tail(statuses), b)

Summarize ==
    /\ pc = "returned"
    /\ successful' = Tally(finalStatus, TRUE)
    /\ failed' = Tally(finalStatus, FALSE)
    /\ pc' = "summarized"
    /\ UNCHANGED << session, upload >>
    /\ UNCHANGED << networks, input, notice, target_networks, userList, finalStatus, ni, ui,
                    network, user_id, calls, console, table >>

\* printFinalStatus: entry["error"].message["errors"][0] raises TypeError (not
\* caught) for an APIError without an errors list, AttributeError (caught) for a str.
LogRaises(entry) == entry.error.type = "APIError" /\ ~entry.error.hasErrors

LogStatus(entry) ==
    IF entry.success THEN "Success"
    ELSE IF Contains(entry.error.text, AlreadyExists) THEN "Warning"
    ELSE "Failed"

LogRow(entry) ==
    [network |-> entry.network, user |-> entry.username, password |-> entry.password,
     status |-> LogStatus(entry), error |-> entry.error.text]

ShowLog ==
    /\ pc = "summarized"
    /\ \E answer \in BOOLEAN :
        IF ~answer
        THEN pc' = "done" /\ table' = table
        ELSE IF \E i \in 1..Len(finalStatus) : LogRaises(finalStatus[i])
        THEN pc' = "logRaised" /\ table' = table
        ELSE /\ pc' = "done"
             /\ table' = [i \in 1..Len(finalStatus) |-> LogRow(finalStatus[i])]
    /\ UNCHANGED << session, upload >>
    /\ UNCHANGED << networks, input, notice, target_networks, userList, finalStatus, ni, ui,
                    network, user_id, calls, console, successful, failed >>

----------------------------------------------------------------------------
(* main before the batch: API key loop, organization, networks, user entry *)

MaxAttempts == 2     \* organization listings tried in the API key loop
MaxInterrupts == 1   \* KeyboardInterrupts delivered to one run

\* What the operator may type at the API key prompt.
KeyEntries == { << >>, << " " >>, << "k", "1" >>, << " ", "k", "2" >> }

\* promptMerakiAPIKey: the stripped entry; a blank one is asked for again.
promptMerakiAPIKey(entry) == Strip(entry)

\* The organizations (by id) an API key may have access to.
OrgLists == { << >>, << "O1" >>, << "O1", "O2" >> }

\* What getOrganizations may raise: a dashboard answer with an errors list,
\* or an APIError without one (no answer, or an answer that is not JSON).
AuthErrors == { APIError(TRUE, << "Invalid", "API", "key" >>), APIError(FALSE, << >>) }

\* The requests main issues before the batch; each is sent with the API key
\* the dashboard session was built with.
SessionCall(name, key, didRaise) == [op |-> name, apiKey |-> key, raised |-> didRaise]

\* One pass of `while authenticated == False`: the key is stored, the
\* organizations are listed; `except APIError` prints e.message['errors'][0]
\* (TypeError, not caught, for an error without an errors list) and loops.
Authenticate ==
    /\ pc = "auth"
    /\ Len(calls) < MaxAttempts
    /\ \E entry \in KeyEntries :
        /\ promptMerakiAPIKey(entry) # << >>
        /\ api_key' = promptMerakiAPIKey(entry)
        /\ \/ \E found \in OrgLists :
                /\ calls' = Append(calls, SessionCall("getOrganizations", api_key', FALSE))
                /\ orgs' = found
                /\ authenticated' = TRUE
                /\ pc' = "selectOrg"
           \/ \E e \in AuthErrors :
                /\ calls' = Append(calls, SessionCall("getOrganizations", api_key', TRUE))
                /\ pc' = IF e.hasErrors THEN "auth" ELSE "crashed"
                /\ UNCHANGED << orgs, authenticated >>
    /\ UNCHANGED << working_org, operation, interrupts, upload >>
    /\ UNCHANGED << networks, input, notice, target_networks, userList, finalStatus, ni, ui,
                    network, user_id, console, successful, failed, table >>

\* What the operator may type at the "Select One" prompt.
OrgEntries == { << "1" >>, << "2" >>, << "0" >>, << "a" >> }

\* promptSelectOrg: the only organization, or the one whose number is entered;
\* any other entry is asked for again.
SelectOrg ==
    /\ pc = "selectOrg"
    /\ \/ /\ Len(orgs) = 1
          /\ working_org' = orgs[1]
       \/ /\ Len(orgs) # 1
          /\ \E selection \in OrgEntries :
                /\ IsInt(selection)
                /\ int(selection) \in 1..Len(orgs)
                /\ working_org' = orgs[(int(selection) - 1) + 1]
    /\ pc' = "listNetworks"
    /\ UNCHANGED << api_key, authenticated, orgs, operation, interrupts, upload >>
    /\ UNCHANGED << networks, input, notice, target_networks, userList, finalStatus, ni, ui,
                    network, user_id, calls, console, successful, failed, table >>

\* main: mvpn.getNetworks(), outside any try.
ListNetworks ==
    /\ pc = "listNetworks"
    /\ \/ /\ calls' = Append(calls, SessionCall("getNetworks", api_key, TRUE))
          /\ pc' = "crashed"
          /\ UNCHANGED networks
       \/ \E networkList \in NetworkLists :
          /\ calls' = Append(calls, SessionCall("getNetworks", api_key, FALSE))
          /\ networks' = networkList
          /\ pc' = "listDevices"
    /\ UNCHANGED << session, upload >>
    /\ UNCHANGED << input, notice, target_networks, userList, finalStatus, ni, ui,
                    network, user_id, console, successful, failed, table >>

\* promptSelectNetworks, up to the sorted candidate list: mvpn.getOrgDevices()
\* (outside any try), the MX filter, the sort.
ListDevices ==
    /\ pc = "listDevices"
    /\ \/ /\ calls' = Append(calls, SessionCall("getOrgDevices", api_key, TRUE))
          /\ pc' = "crashed"
          /\ UNCHANGED networks
       \/ \E mxList \in SUBSET NetworkIds :
          /\ calls' = Append(calls, SessionCall("getOrgDevices", api_key, FALSE))
          /\ networks' = Candidates(networks, mxList)
          /\ pc' = "buildGrid"
    /\ UNCHANGED << session, upload >>
    /\ UNCHANGED << input, notice, target_networks, userList, finalStatus, ni, ui,
                    network, user_id, console, successful, failed, table >>

\* promptSelectNetworks: the grid is assembled and printed, target_networks = None.
BuildGrid ==
    /\ pc = "buildGrid"
    /\ target_networks' = NoSelection
    /\ pc' = "selectPrompt"
    /\ UNCHANGED << session, upload >>
    /\ UNCHANGED << networks, input, notice, userList, finalStatus, ni, ui,
                    network, user_id, calls, console, successful, failed, table >>

\* A KeyboardInterrupt delivered inside one of the `try: cellN = columnN[each]`
\* of the grid loop: the bare `except:` takes it, the cell is left "" and the
\* run goes on (there is a row only if there is a candidate).
GridInterrupt ==
    /\ pc = "buildGrid"
    /\ Len(networks) >= 1
    /\ interrupts < MaxInterrupts
    /\ interrupts' = interrupts + 1
    /\ UNCHANGED << api_key, authenticated, orgs, working_org, operation, upload >>
    /\ UNCHANGED << pc, networks, input, notice, target_networks, userList, finalStatus, ni,
                    ui, network, user_id, calls, console, successful, failed, table >>

\* Where the process has ended.
Ended == { "done", "farewell", "crashed", "batchRaised", "logRaised" }

\* A KeyboardInterrupt delivered anywhere else: no handler below __main__
\* takes it (createNewVPNUser catches Exception, which it is not), main is
\* left and the farewell is printed; the script then ends.
Interrupt ==
    /\ pc \notin Ended
    /\ interrupts < MaxInterrupts
    /\ interrupts' = interrupts + 1
    /\ pc' = "farewell"
    /\ UNCHANGED << api_key, authenticated, orgs, working_org, operation, upload >>
    /\ UNCHANGED << networks, input, notice, target_networks, userList, finalStatus, ni,
                    ui, network, user_id, calls, console, successful, failed, table >>

\* What promptUserInputMethod can return.
Choices == { "ADD-MANUAL", "ADD-CSV", "DEACTIVATE-MANUAL", "DEACTIVATE-CSV" }

Manual(choice) == choice \in { "ADD-MANUAL", "DEACTIVATE-MANUAL" }

\* main: the operation of a choice.
Operation(choice) == IF choice \in { "ADD-MANUAL", "ADD-CSV" } THEN "ADD" ELSE "DEACTIVATE"

\* main, from the return of promptSelectNetworks (its locals are gone) to the
\* call of the batch: the choice, then the user list that
\* promptManualUserInput (at least one user) or promptUploadCSV returns.
EnterUsers ==
    /\ pc = "selectReturned"
    /\ \E choice \in Choices :
        /\ operation' = Operation(choice)
        /\ userList' \in SeqsUpTo(IF operation' = "ADD" THEN AddUsers ELSE DeactivateUsers,
                                  MaxUsers)
        /\ Manual(choice) => Len(userList') >= 1
        /\ Len(target_networks) * Len(userList') <= MaxPairs
        /\ pc' = IF operation' = "ADD" THEN "createLoop" ELSE "deactLookup"
    /\ networks' = << >>
    /\ input' = << >>
    /\ notice' = ""
    /\ UNCHANGED << api_key, authenticated, orgs, working_org, interrupts, upload >>
    /\ UNCHANGED << target_networks, finalStatus, ni, ui, network, user_id, calls, console,
                    successful, failed, table >>

----------------------------------------------------------------------------
(* promptUploadCSV and generatePassword *)

MaxFiles == 2      \* file names asked for in one upload
MaxRows == 2       \* rows of one CSV file
MaxRecords == 2    \* records in the list of one upload
MaxSeeds == 2      \* outcomes of the random source that are tried

\* range(24) in generatePassword.
PasswordLength == 24

\* string.ascii_letters + string.digits
PasswordAlphabet ==
    << "a", "b", "c", "d", "e", "f", "g", "h", "i", "j", "k", "l", "m",
       "n", "o", "p", "q", "r", "s", "t", "u", "v", "w", "x", "y", "z",
       "A", "B", "C", "D", "E", "F", "G", "H", "I", "J", "K", "L", "M",
       "N", "O", "P", "Q", "R", "S", "T", "U", "V", "W", "X", "Y", "Z",
       "0", "1", "2", "3", "4", "5", "6", "7", "8", "9" >>

\* The positions secrets.choice picks in its 24 calls: any 24 positions of the
\* alphabet may come out; the model tries the sequences below, one per seed.
Draws(seed) ==
    [i \in 1..PasswordLength |-> ((seed + i * seed) % Len(PasswordAlphabet)) + 1]

\* generatePassword, for the positions secrets.choice picked.
generatePassword(seed) == [i \in 1..PasswordLength |-> PasswordAlphabet[Draws(seed)[i]]]

\* The fields a row of the file may hold, and the rows: csv.reader gives []
\* for an empty line. A row has up to three fields.
NameFields == { << " ", "A" >> }
EmailFields == { << "a", "@" >>, << "b", "@", " " >> }
PasswordFields == { << >>, << " " >>, << "p", "w" >>, << " ", "p", "w" >> }

Rows ==
    { << >>, << << " " >> >> }
    \cup { << e >> : e \in EmailFields }
    \cup { << n, e >> : n \in NameFields, e \in EmailFields }
    \cup { << n, e, p >> : n \in NameFields, e \in EmailFields, p \in PasswordFields }

\* any(item.strip() for item in line)
NonBlank(row) == \E i \in 1..Len(row) : Strip(row[i]) # << >>

\* line[1] of a creation row with a single field: IndexError, not caught
\* (the handler of the file loop is for FileNotFoundError).
RowRaises(op, row) == op # "DEACTIVATE" /\ Len(row) < 2

\* A variant that takes the password field as it stands in the file.
Password_AsWritten(row, generated) ==
    IF Len(row) >= 3 /\ row[3] # << >> THEN row[3] ELSE generated

\* user_info["password"]: line[2].strip(); a generated password when the row
\* has no third field (IndexError) or the stripped field is "".
Password(row, generated) ==
    IF Len(row) >= 3 /\ Strip(row[3]) # << >> THEN Strip(row[3]) ELSE generated

\* user_info for a row that is not blank and does not raise.
UserInfo(op, row, generated) ==
    IF op = "DEACTIVATE"
    THEN [username |-> None, email |-> Strip(row[1]), password |-> Password(row, generated)]
    ELSE [username |-> Strip(row[1]), email |-> Strip(row[2]),
          password |-> Password(row, generated)]

\* Prompt.ask("File Name") and open(): FileNotFoundError prints a notice and
\* asks again; userList is not touched in either case.
UploadOpen ==
    /\ pc = "csvPrompt"
    /\ opened < MaxFiles
    /\ opened' = opened + 1
    /\ \/ /\ pc' = "csvPrompt"
          /\ UNCHANGED << lineno, fileStart >>
       \/ /\ pc' = "csvRead"
          /\ lineno' = 0
          /\ fileStart' = Len(userList)
    /\ UNCHANGED << line, count, session >>
    /\ UNCHANGED << networks, input, notice, target_networks, userList, finalStatus, ni, ui,
                    network, user_id, calls, console, successful, failed, table >>

\* One pass of `for line in csv_reader`.
UploadRow ==
    /\ pc = "csvRead"
    /\ lineno < MaxRows
    /\ Len(userList) < MaxRecords
    /\ \E row \in Rows :
        /\ line' = row
        /\ lineno' = lineno + 1
        /\ IF ~NonBlank(row)
           THEN UNCHANGED << pc, userList >>
           ELSE IF RowRaises(operation, row)
           THEN pc' = "crashed" /\ UNCHANGED userList
           ELSE /\ \E seed \in 1..MaxSeeds :
                     userList' = Append(userList,
                                        UserInfo(operation, row, generatePassword(seed)))
                /\ UNCHANGED pc
    /\ UNCHANGED << count, fileStart, opened, session >>
    /\ UNCHANGED << networks, input, notice, target_networks, finalStatus, ni, ui,
                    network, user_id, calls, console, successful, failed, table >>

\* The file is read to its end: count = len(userList) is printed.
UploadCount ==
    /\ pc = "csvRead"
    /\ count' = Len(userList)
    /\ pc' = "csvConfirm"
    /\ UNCHANGED << line, lineno, fileStart, opened, session >>
    /\ UNCHANGED << networks, input, notice, target_networks, userList, finalStatus, ni, ui,
                    network, user_id, calls, console, successful, failed, table >>

\* Confirm.ask("Proceed?"): on no the loop starts over, on yes userList is returned.
UploadConfirm ==
    /\ pc = "csvConfirm"
    /\ \E answer \in BOOLEAN :
          pc' = IF answer THEN "csvReturned" ELSE "csvPrompt"
    /\ UNCHANGED << upload, session >>
    /\ UNCHANGED << networks, input, notice, target_networks, userList, finalStatus, ni, ui,
                    network, user_id, calls, console, successful, failed, table >>

----------------------------------------------------------------------------
(* The creation batch on its own *)

\* Every target set network selection can return: any ordered choice of
\* distinct networks, the empty one included.
TargetSets == NetworkLists

\* The session as main leaves it to the batch, and an upload not begun.
SessionReady(op) ==
    /\ api_key = << "k", "1" >>
    /\ authenticated = TRUE
    /\ orgs = << "O1" >>
    /\ working_org = "O1"
    /\ operation = op
    /\ interrupts = 0

UploadIdle ==
    /\ line = << >>
    /\ lineno = 0
    /\ count = 0
    /\ fileStart = 0
    /\ opened = 0

BatchInit(users) ==
    /\ UploadIdle
    /\ networks = << >>
    /\ input = << >>
    /\ notice = ""
    /\ target_networks \in TargetSets
    /\ userList \in SeqsUpTo(users, MaxUsers)
    /\ Len(target_networks) * Len(userList) <= MaxPairs
    /\ finalStatus = << >>
    /\ ni = 1
    /\ ui = 1
    /\ network = Unbound
    /\ user_id = None
    /\ calls = << >>
    /\ console = << >>
    /\ successful = 0
    /\ failed = 0
    /\ table = << >>

InitCreate == pc = "createLoop" /\ SessionReady("ADD") /\ BatchInit(AddUsers)

NextCreate == CreateStep \/ CreateReturn \/ Summarize \/ ShowLog

SpecCreate == InitCreate /\ [][NextCreate]_vars

(* The deactivation batch on its own *)

InitDeactivate ==
    pc = "deactLookup" /\ SessionReady("DEACTIVATE") /\ BatchInit(DeactivateUsers)

NextDeactivate ==
    DeactLookup \/ DeactNoNetworks \/ DeactDelete \/ DeactReturn \/ Summarize \/ ShowLog

SpecDeactivate == InitDeactivate /\ [][NextDeactivate]_vars

(* Network selection on its own *)

InitSelect ==
    /\ pc = "selectPrompt"
    /\ SessionReady(None)
    /\ UploadIdle
    /\ \E networkList \in NetworkLists, mxList \in SUBSET NetworkIds :
          networks = Candidates(networkList, mxList)
    /\ input = << >>
    /\ notice = ""
    /\ target_networks = NoSelection
    /\ userList = << >>
    /\ finalStatus = << >>
    /\ ni = 1
    /\ ui = 1
    /\ network = Unbound
    /\ user_id = None
    /\ calls = << >>
    /\ console = << >>
    /\ successful = 0
    /\ failed = 0
    /\ table = << >>

NextSelect == SelectAsk \/ SelectParse \/ SelectConfirm

SpecSelect == InitSelect /\ [][NextSelect]_vars

(* The CSV upload on its own *)

InitUpload ==
    /\ pc = "csvPrompt"
    /\ operation \in { "ADD", "DEACTIVATE" }
    /\ api_key = << "k", "1" >>
    /\ authenticated = TRUE
    /\ orgs = << "O1" >>
    /\ working_org = "O1"
    /\ interrupts = 0
    /\ UploadIdle
    /\ networks = << >>
    /\ input = << >>
    /\ notice = ""
    /\ target_networks = << Catalog[1] >>
    /\ userList = << >>
    /\ finalStatus = << >>
    /\ ni = 1
    /\ ui = 1
    /\ network = Unbound
    /\ user_id = None
    /\ calls = << >>
    /\ console = << >>
    /\ successful = 0
    /\ failed = 0
    /\ table = << >>

NextUpload == UploadOpen \/ UploadRow \/ UploadCount \/ UploadConfirm

SpecUpload == InitUpload /\ [][NextUpload]_vars

(* Either batch, up to the end of main *)

InitBatch == InitCreate \/ InitDeactivate

NextBatch == NextCreate \/ NextDeactivate

SpecBatch == InitBatch /\ [][NextBatch]_vars

(* The whole run *)

Init ==
    /\ pc = "auth"
    /\ api_key = << >>
    /\ authenticated = FALSE
    /\ orgs = << >>
    /\ working_org = None
    /\ operation = None
    /\ interrupts = 0
    /\ UploadIdle
    /\ networks = << >>
    /\ input = << >>
    /\ notice = ""
    /\ target_networks = NoSelection
    /\ userList = << >>
    /\ finalStatus = << >>
    /\ ni = 1
    /\ ui = 1
    /\ network = Unbound
    /\ user_id = None
    /\ calls = << >>
    /\ console = << >>
    /\ successful = 0
    /\ failed = 0
    /\ table = << >>

Next ==
    \/ Authenticate \/ SelectOrg \/ ListNetworks \/ ListDevices \/ BuildGrid
    \/ SelectAsk \/ SelectParse \/ SelectConfirm
    \/ EnterUsers
    \/ CreateStep \/ CreateReturn
    \/ DeactLookup \/ DeactNoNetworks \/ DeactDelete \/ DeactReturn
    \/ Summarize \/ ShowLog
    \/ GridInterrupt \/ Interrupt

Spec == Init /\ [][Next]_vars

----------------------------------------------------------------------------
(* Properties of the creation batch (under SpecCreate) *)

\* The (network, user) pair of the k-th pass of createUsers.
PairNet(k) == target_networks[((k - 1) \div Len(userList)) + 1]
PairUser(k) == userList[((k - 1) % Len(userList)) + 1]

BatchOver == pc \notin { "createLoop", "deactLookup", "deactDelete" }

\* C1: for a non-empty target set, whatever the dashboard answers, createUsers
\* returns, and returns |networks| x |users| records.
C1_CreateReturnsAllRecords ==
    (BatchOver /\ Len(target_networks) > 0) =>
        /\ pc # "batchRaised"
        /\ Len(finalStatus) = Len(target_networks) * Len(userList)

C6_CallsCoverProduct ==
    BatchOver =>
        /\ Len(calls) = Len(target_networks) * Len(userList)
        /\ \A k \in 1..Len(calls) :
            /\ calls[k].op = "create"
            /\ calls[k].networkId = PairNet(k).id
            /\ calls[k].name = PairUser(k).username
            /\ calls[k].email = PairUser(k).email
            /\ calls[k].password = PairUser(k).password
            /\ calls[k].authorizedZone = << PairNet(k).name, "-", "appliance" >>

IsAlreadyExists(error) ==
    error.type = "APIError" /\ error.hasErrors /\ Contains(error.text, AlreadyExists)

FailureCount == Cardinality({ k \in 1..Len(finalStatus) : ~finalStatus[k].success })

\* C7: a create answered with an "already exists" error is recorded with
\* success false and counted in the failures of the totals; it is printed as
\* "already active" during the batch and as Warning in the detailed log, where
\* any other failure is printed as Failed.
C7_AlreadyExistsIsFailure ==
    /\ \A k \in 1..Len(calls) :
          calls[k].raised => (~finalStatus[k].success /\ finalStatus[k].error.type = "APIError")
    /\ \A k \in 1..Len(finalStatus) :
          /\ finalStatus[k].success => finalStatus[k].error = EmptyStr
          /\ k <= Len(console) =>
                console[k].status =
                    IF finalStatus[k].success THEN "Success"
                    ELSE IF IsAlreadyExists(finalStatus[k].error) THEN "AlreadyActive"
                    ELSE "Failed"
          /\ k <= Len(table) =>
                table[k].status =
                    IF finalStatus[k].success THEN "Success"
                    ELSE IF IsAlreadyExists(finalStatus[k].error) THEN "Warning"
                    ELSE "Failed"
    /\ pc \in { "summarized", "done", "logRaised" } =>
          /\ failed = FailureCount
          /\ successful + failed = Len(finalStatus)

C7_Witness ==
    /\ pc = "done"
    /\ Len(table) = Len(finalStatus)
    /\ failed >= 2
    /\ \E j, k \in 1..Len(finalStatus) :
          /\ IsAlreadyExists(finalStatus[j].error)
          /\ table[j].status = "Warning"
          /\ console[j].status = "AlreadyActive"
          /\ ~finalStatus[k].success
          /\ table[k].status = "Failed"

----------------------------------------------------------------------------
(* Properties of the deactivation batch (under SpecDeactivate) *)

IsNotFound(status, email) ==
    /\ status.network = "ALL"
    /\ status.username = email
    /\ ~status.success

\* statuses is, from user u on, one block per user: a single "not found"
\* record, or one record per target network (at least one).
RECURSIVE BlockPerUser(_, _)
BlockPerUser(statuses, u) ==
    IF u > Len(userList) THEN statuses = << >>
    ELSE LET n == Len(target_networks)
             email == userList[u].email
         IN  \/ /\ statuses # << >>
                /\ IsNotFound(Head(statuses), email)
                /\ BlockPerUser(Tail(statuses), u + 1)
             \/ /\ n >= 1
                /\ Len(statuses) >= n
                /\ \A i \in 1..n :
                      /\ statuses[i].network = target_networks[i].name
                      /\ statuses[i].username = email
                /\ BlockPerUser(SubSeq(statuses, n + 1, Len(statuses)), u + 1)

\* C3: once the batch is over, every user of the list has contributed either
\* one "not found" record or |networks| per-network records.
C3_OneOrAllPerUser == BatchOver => BlockPerUser(finalStatus, 1)

\* C4: the step that ends a user's lookup without a match in any target
\* network appends one record (success false, network "ALL"), issues no
\* delete call and moves on to the next user.
C4_NoMatchYieldsOneRecord ==
    [][ ( /\ pc = "deactLookup"
          /\ ui <= Len(userList)
          /\ ni >= Len(target_networks)
          /\ user_id' = None
          /\ (Len(calls') > Len(calls) => ~calls'[Len(calls')].raised) )
        => ( /\ finalStatus' = Append(finalStatus, NotFoundStatus(userList[ui].email))
             /\ \A k \in (Len(calls) + 1)..Len(calls') : calls'[k].op # "delete"
             /\ ui' = ui + 1
             /\ pc' = "deactLookup" ) ]_vars

\* C5: a batch is never left because the dashboard answered a call with an error.
C5_GatewayErrorNeverAborts ==
    pc = "batchRaised" => (calls = << >> \/ ~calls[Len(calls)].raised)

----------------------------------------------------------------------------
(* Properties of network selection (under SpecSelect) *)

EntryIsAll(str) ==
    /\ Len(str) = 3
    /\ str[1] \in { "a", "A" }
    /\ str[2] \in { "l", "L" }
    /\ str[3] \in { "l", "L" }

\* The entries of str that parse as a number within 1..|candidates|.
ValidIndexes(str) ==
    { int(InputList(str)[i]) : i \in { j \in 1..Len(InputList(str)) :
        /\ IsInt(InputList(str)[j])
        /\ int(InputList(str)[j]) \in 1..Len(networks) } }

\* C8: in a selection made from an index list, every selected network is the
\* candidate at an index of the list that lies within 1..|candidates|.
C8_OnlyInRangeIndexesSelect ==
    (pc \in { "selectConfirm", "selectReturned" } /\ ~EntryIsAll(input)) =>
        \A k \in 1..Len(target_networks) :
            \E v \in ValidIndexes(input) :
                /\ target_networks[k].name = networks[v].name
                /\ target_networks[k].id = networks[v].id

\* C9: the entry ALL, in any letter case, returns one entry per candidate
\* network, mapping each candidate's name to its own id.
C9_AllSelectsEveryCandidate ==
    [][ (pc = "selectEntered" /\ EntryIsAll(input))
        => ( /\ pc' = "selectReturned"
             /\ Len(target_networks') = Len(networks)
             /\ DictKeys(target_networks') = { networks[i].name : i \in 1..Len(networks) }
             /\ \A i \in 1..Len(networks) :
                   DictGet(target_networks', networks[i].name) = networks[i].id ) ]_vars

C9_Witness ==
    /\ pc = "selectReturned"
    /\ input = << "A", "l", "L" >>
    /\ Len(networks) = 2
    /\ target_networks = networks

\* C10 as stated: selection returns only from the confirmation step, and a
\* declined confirmation resets the selection and prompts again.
C10_ReturnOnlyAfterConfirm ==
    [][ /\ (pc # "selectReturned" /\ pc' = "selectReturned") => pc = "selectConfirm"
        /\ (pc = "selectConfirm" /\ pc' # "selectReturned")
              => (target_networks' = NoSelection /\ pc' = "selectPrompt") ]_vars

\* C10 amended: a selection made from an index list is returned only from the
\* confirmation step, unchanged, and a declined confirmation resets the
\* selection and prompts again; the ALL keyword returns without confirmation.
C10_IndexListReturnsAfterConfirm ==
    [][ /\ (pc # "selectReturned" /\ pc' = "selectReturned")
              => \/ (pc = "selectConfirm" /\ target_networks' = target_networks)
                 \/ (pc = "selectEntered" /\ EntryIsAll(input))
        /\ (pc = "selectEntered" /\ EntryIsAll(input)) => pc' = "selectReturned"
        /\ (pc = "selectConfirm" /\ pc' # "selectReturned")
              => (target_networks' = NoSelection /\ pc' = "selectPrompt") ]_vars

\* A selection of two networks made from an index list, confirmed and returned.
C10_Witness ==
    /\ pc = "selectReturned"
    /\ notice = "Selected"
    /\ ~EntryIsAll(input)
    /\ Len(target_networks) = 2

----------------------------------------------------------------------------
(* Lookup and delete order of the deactivation batch (under SpecDeactivate) *)

\* The requests of the deactivation batch from user u on, read as one block per
\* user: listings of the target networks in order from the first, each at most
\* once, followed by nothing (raised, or still running), by the next user's
\* block after a listing of the last network, or by that user's deletes.
RECURSIVE LookupBlocks(_, _)
LookupBlocks(cs, u) ==
    IF cs = << >> THEN TRUE
    ELSE /\ u <= Len(userList)
         /\ \E k \in 1..Len(target_networks) :
              /\ k <= Len(cs)
              /\ \A i \in 1..k :
                    /\ cs[i].op = "list"
                    /\ cs[i].networkId = target_networks[i].id
                    /\ i < k => ~cs[i].raised
              /\ LET rest == SubSeq(cs, k + 1, Len(cs))
                     d == IF Len(rest) < Len(target_networks)
                          THEN Len(rest) ELSE Len(target_networks)
                 IN  \/ rest = << >>
                     \/ /\ ~cs[k].raised
                        /\ k = Len(target_networks)
                        /\ rest[1].op = "list"
                        /\ LookupBlocks(rest, u + 1)
                     \/ /\ ~cs[k].raised
                        /\ \A i \in 1..d : rest[i].op = "delete"
                        /\ LookupBlocks(SubSeq(rest, d + 1, Len(rest)), u + 1)

\* C16: the lookup for a user lists the target networks in the set's order,
\* each at most once, and stops at the first match: at most |N| listings per
\* user, none at all for an empty target set, and the scan goes on only while
\* no identifier was found.
C16_LookupScansEachNetworkOnce ==
    /\ LookupBlocks(calls, 1)
    /\ pc = "deactLookup" => user_id = None
    /\ pc = "deactDelete" => user_id # None

\* Two users over two networks: the first matches nowhere (two listings), the
\* second matches in the first network (one listing, then its deletes).
C16_Witness ==
    /\ pc = "returned"
    /\ Len(target_networks) = 2
    /\ Len(calls) = 5
    /\ calls[1].op = "list" /\ calls[2].op = "list" /\ calls[3].op = "list"
    /\ calls[4].op = "delete" /\ calls[5].op = "delete"

\* C17: once the lookup found an identifier, one delete is issued per target
\* network, in the set's order and with that identifier, whichever network
\* matched; each delete adds one record, failed when the delete was answered
\* with an API error, and the deletes that remain are still issued.
C17_DeleteOnEveryTarget ==
    [][ /\ (pc = "deactLookup" /\ user_id' # None)
            => (pc' = "deactDelete" /\ ni' = 1 /\ Len(target_networks) >= 1)
        /\ pc = "deactDelete"
            => /\ ni \in 1..Len(target_networks)
               /\ Len(calls') = Len(calls) + 1
               /\ SubSeq(calls', 1, Len(calls)) = calls
               /\ calls'[Len(calls')].op = "delete"
               /\ calls'[Len(calls')].networkId = target_networks[ni].id
               /\ calls'[Len(calls')].userId = user_id
               /\ Len(finalStatus') = Len(finalStatus) + 1
               /\ SubSeq(finalStatus', 1, Len(finalStatus)) = finalStatus
               /\ finalStatus'[Len(finalStatus')].network = target_networks[ni].name
               /\ finalStatus'[Len(finalStatus')].success = ~calls'[Len(calls')].raised
               /\ IF ni < Len(target_networks)
                  THEN pc' = "deactDelete" /\ ni' = ni + 1 /\ user_id' = user_id
                  ELSE pc' = "deactLookup" /\ ui' = ui + 1 ]_vars

\* A match in the second of two networks: both networks get a delete, the
\* first of them (scanned before the match) fails and the second is still issued.
C17_Witness ==
    /\ pc = "returned"
    /\ Len(target_networks) = 2
    /\ Len(calls) = 4
    /\ calls[1].op = "list" /\ calls[2].op = "list"
    /\ calls[3].op = "delete" /\ calls[3].raised
    /\ calls[3].networkId = target_networks[1].id
    /\ calls[4].op = "delete" /\ ~calls[4].raised
    /\ calls[4].userId = calls[3].userId
    /\ ~finalStatus[1].success /\ finalStatus[2].success

----------------------------------------------------------------------------
(* Properties of the whole run (under Spec) and of either batch (under SpecBatch) *)

\* C11: once the operator's interrupt was delivered the run is over, with the
\* farewell printed and nothing raised: no step is taken, no gateway call
\* issued, after it.
C11_InterruptEndsRun ==
    interrupts > 0 => pc = "farewell"

\* C12: every organization listing that fails with an API error leads back to
\* the API key prompt, and main goes on to organization selection only from a
\* listing that succeeded with the key entered last.
C12_AuthenticationGates ==
    [][ /\ (pc = "auth" /\ Len(calls') > Len(calls) /\ calls'[Len(calls')].raised)
            => pc' = "auth"
        /\ (pc = "auth" /\ pc' = "selectOrg")
            => /\ authenticated'
               /\ Len(calls') = Len(calls) + 1
               /\ calls'[Len(calls')].op = "getOrganizations"
               /\ calls'[Len(calls')].apiKey = api_key'
               /\ ~calls'[Len(calls')].raised
        /\ pc' \in { "selectOrg", "listNetworks", "listDevices", "createLoop",
                     "deactLookup", "deactDelete" } => authenticated' ]_vars

\* C14: once main has summed up, successful is the number of records with
\* success true, failed the number with success false, and together they are
\* the length of the status list, after createUsers and after deactivateUsers.
C14_TotalsMatchRecords ==
    pc \in { "summarized", "done", "logRaised" } =>
        /\ successful = Cardinality({ i \in 1..Len(finalStatus) : finalStatus[i].success })
        /\ failed = Cardinality({ i \in 1..Len(finalStatus) : ~finalStatus[i].success })
        /\ successful + failed = Len(finalStatus)

\* A deactivation summed up with records of both kinds, a "User not found" among them.
C14_Witness ==
    /\ pc = "summarized"
    /\ operation = "DEACTIVATE"
    /\ successful >= 1
    /\ failed >= 2
    /\ \E i \in 1..Len(finalStatus) : finalStatus[i].network = "ALL"

\* C19: promptSelectNetworks returns, and the batch runs with, at least one
\* target network.
C19_TargetSetNeverEmpty ==
    pc \in { "selectReturned", "createLoop", "deactLookup", "deactDelete" }
        => Len(target_networks) >= 1

----------------------------------------------------------------------------
(* Properties of the CSV upload (under SpecUpload) *)

\* The record a row of a creation file was parsed into, at the step that read it.
RowParsed == pc = "csvRead" /\ operation = "ADD" /\ Len(userList') = Len(userList) + 1

\* A str that generatePassword can have returned.
IsGenerated(str) ==
    /\ Len(str) = PasswordLength
    /\ \A i \in 1..Len(str) : \E j \in 1..Len(PasswordAlphabet) : str[i] = PasswordAlphabet[j]

\* C13 as stated: a creation row without a third field, or with an empty
\* one, gives a record with a generated, non-empty password; a row with a
\* non-empty third field gives a record with that field, unchanged, as
\* password; name and email are the first and the second field.
C13_PasswordKeptUnchanged ==
    [][ RowParsed =>
          LET user == userList'[Len(userList')]
          IN  /\ user.username = Strip(line'[1])
              /\ user.email = Strip(line'[2])
              /\ IF Len(line') >= 3 /\ line'[3] # << >>
                 THEN user.password = line'[3]
                 ELSE IsGenerated(user.password) ]_vars

\* C13 amended: the password is the third field without the blanks around
\* it; a row without a third field, or whose third field is empty or all
\* blanks, gives a record with a generated, non-empty password; name and email
\* are the first and the second field without the blanks around them.
C13_PasswordKeptStripped ==
    [][ RowParsed =>
          LET user == userList'[Len(userList')]
          IN  /\ user.username = Strip(line'[1])
              /\ user.email = Strip(line'[2])
              /\ user.password # << >>
              /\ IF Len(line') >= 3 /\ Strip(line'[3]) # << >>
                 THEN user.password = Strip(line'[3])
                 ELSE IsGenerated(user.password) ]_vars

\* A creation row whose password field is written with a blank before it has
\* been parsed: the record holds the password without the blank.
C13_Witness ==
    /\ pc = "csvRead"
    /\ operation = "ADD"
    /\ Len(line) = 3
    /\ line[3] = << " ", "p", "w" >>
    /\ Len(userList) = 2
    /\ userList[2].password = << "p", "w" >>
    /\ IsGenerated(userList[1].password)

\* C18: the list promptUploadCSV returns holds the records of the confirmed
\* file and no others, and the count printed before the confirmation is the
\* number of its rows that are not blank.
C18_OnlyConfirmedFileReturned ==
    pc = "csvReturned" =>
        /\ fileStart = 0
        /\ count = Len(userList) - fileStart

====
